---- MODULE Spec2Model ----
(***************************************************************************)
(* Schema reconciliation and request handling of WannCannaMED.             *)
(*                                                                         *)
(* Part I   the SQLite store as the statements of the repository use it.   *)
(* Part II  db/migrations/ensure-products-schema.js (ensureTable,          *)
(*          ensureProductsSchema) run by scripts/run-migrations.js.        *)
(* Part III the startup of server.js: the tables it creates and extends,   *)
(*          the strains it seeds, and the requests it serves meanwhile.    *)
(* Part IV  the routes of server.js behind requireAuth and requireAdmin,   *)
(*          the messages and the newsletter.                               *)
(* Part V   ensureAdditionalProducts and ensureAdmin of server.js, run by  *)
(*          one server or by two on the same database file.                *)
(* Part VI  getLastWorkdayDate and the prescription routes of server.js.   *)
(*                                                                         *)
(* A behaviour follows one table of the database file: statements on       *)
(* different tables do not read or change each other's tables.             *)
(***************************************************************************)
EXTENDS Integers, Sequences, FiniteSets, TLC

\* ---------------------------------------------------------------- bounds
\* At most this many expected columns are absent from a table that exists
\* in the initial state.
MaxMissing == 2
\* Rows a table holds in the initial state.
MaxRows == 1
\* Invocations of the migration script over one behaviour.
MaxRuns == 3
\* Store failures other than the ones the statements themselves cause.
MaxFaults == 1
\* Migration processes killed in the middle of an invocation.
MaxCrashes == 1
\* Entries of a `desired` column list of server.js that are followed.
MaxDesired == 5
\* Entries of the `additional` strain list of server.js that are followed.
MaxSeeds == 1
\* Requests served over one behaviour.
MaxRequests == 1

\* At most this many requests are served in a behaviour of the routes.
MaxHits == 4

\* At most this many starts of a server process in a behaviour.
MaxBoots == 3

\* The days followed run from each anchor day to this many days after it.
MaxDays == 7
\* Requests followed where the forms posted are told apart field by field.
MaxPosts == 2

\* The migration processes: two instances of scripts/run-migrations.js
\* started against the same database file.
Procs == {"m1", "m2"}

\* ------------------------------------------------------ Part I: the store
Col(n, d) == [name |-> n, ddl |-> d]

EXPECTED_COLUMNS ==
  << Col("title", "TEXT"),
     Col("price", "REAL"),
     Col("image", "TEXT"),
     Col("description", "TEXT"),
     Col("thc", "TEXT"),
     Col("cbd", "TEXT"),
     Col("effects", "TEXT"),
     Col("aroma", "TEXT"),
     Col("terpenes", "TEXT"),
     Col("strain_type", "TEXT"),
     Col("is_active", "INTEGER DEFAULT 1"),
     Col("created_at", "DATETIME DEFAULT CURRENT_TIMESTAMP"),
     Col("updated_at", "DATETIME DEFAULT CURRENT_TIMESTAMP") >>

PrimaryKey == Col("id", "INTEGER PRIMARY KEY AUTOINCREMENT")

\* A column of an older deployment that no target schema names.
LegacyColumn == Col("legacy_note", "TEXT NOT NULL")

Range(s) == {s[i] : i \in DOMAIN s}

NamesOf(cols) == {cols[i].name : i \in DOMAIN cols}

MapNames(cols) == [i \in DOMAIN cols |-> cols[i].name]

Absent == [exists |-> FALSE, cols |-> <<>>, rows |-> <<>>]

\* The value SQLite stores in existing rows for a column added with the
\* declaration ddl: the DEFAULT of the declaration, NULL without one.
DefaultValue(ddl) ==
  CASE ddl = "INTEGER DEFAULT 1" -> "1"
    [] ddl = "INTEGER DEFAULT 0" -> "0"
    [] ddl = "TEXT DEFAULT ''" -> ""
    [] ddl = "DATETIME DEFAULT CURRENT_TIMESTAMP" -> "CURRENT_TIMESTAMP"
    [] OTHER -> "NULL"

\* What PRAGMA table_info reports as `type` for a column declared so: the
\* words of the declaration before its first constraint.
InfoType(ddl) ==
  CASE ddl \in {"INTEGER", "INTEGER DEFAULT 0", "INTEGER DEFAULT 1",
                "INTEGER PRIMARY KEY AUTOINCREMENT"} -> "INTEGER"
    [] ddl \in {"TEXT", "TEXT DEFAULT ''", "TEXT UNIQUE", "TEXT NOT NULL"} -> "TEXT"
    [] ddl \in {"REAL", "REAL NOT NULL"} -> "REAL"
    [] ddl = "DATETIME DEFAULT CURRENT_TIMESTAMP" -> "DATETIME"
    [] OTHER -> ddl

\* What PRAGMA table_info reports as `dflt_value`: the expression of the
\* DEFAULT clause as written, NULL without one.
InfoDefault(ddl) ==
  CASE ddl = "INTEGER DEFAULT 1" -> "1"
    [] ddl = "INTEGER DEFAULT 0" -> "0"
    [] ddl = "TEXT DEFAULT ''" -> "''"
    [] ddl = "DATETIME DEFAULT CURRENT_TIMESTAMP" -> "CURRENT_TIMESTAMP"
    [] OTHER -> "NULL"

\* The row of PRAGMA table_info(t) for column n.
InfoRow(t, n) ==
  LET c == CHOOSE c \in Range(t.cols) : c.name = n
  IN  [name |-> n, type |-> InfoType(c.ddl), dflt_value |-> InfoDefault(c.ddl)]

\* CREATE TABLE t (cols): fails when the table exists.
SqlCreateTable(t, cols) ==
  IF t.exists
  THEN [err |-> "table already exists", tbl |-> t]
  ELSE [err |-> "none", tbl |-> [exists |-> TRUE, cols |-> cols, rows |-> <<>>]]

\* ALTER TABLE t ADD COLUMN col: appends the column and gives every row its
\* default; fails when the table is missing or has a column of that name.
SqlAddColumn(t, col) ==
  IF ~t.exists
  THEN [err |-> "no such table", tbl |-> t]
  ELSE IF col.name \in NamesOf(t.cols)
  THEN [err |-> "duplicate column name", tbl |-> t]
  ELSE [err |-> "none",
        tbl |-> [t EXCEPT !.cols = Append(@, col),
                          !.rows = [i \in DOMAIN @ |->
                                      (col.name :> DefaultValue(col.ddl)) @@ @[i]]]]

\* PRAGMA table_info(t): the rows of the live columns (none for a missing table).
SqlTableInfo(t) == IF t.exists THEN t.cols ELSE <<>>

\* SELECT name FROM sqlite_master WHERE type='table' AND name=...
SqlMaster(t) == IF t.exists THEN <<"products">> ELSE <<>>

\* --------------------------------------------------------------- state
VARIABLES
  db,        \* the database file: table name -> [exists, cols, rows]
  faults,    \* store failures injected so far
  pc,        \* migration process -> where its invocation stands
  dbOrPath,  \* what the process's invocation was called with: "path" by
             \* run-migrations, "nothing" or "handle" by another caller
  opened,    \* ensureProductsSchema's local `opened`
  connOpen,  \* whether the connection the invocation works on is open
  created,   \* the `created` field of ensureTable's result
  have,      \* ensureTable's local `have`
  missing,   \* ensureTable's local `missing`
  added,     \* ensureTable's local `added`
  err,       \* the error the invocation rejected with, "none" otherwise
  exitCode,  \* run-migrations' process.exit code, -1 while running
  issued,    \* the statements the invocation has sent to the store (history)
  before,    \* the products table as the invocation found it (history)
  runs,      \* invocations started so far
  crashes,   \* processes killed so far
  lastOk,    \* the columns left by the latest invocation that returned (history)
  prevOk,    \* lastOk as it was when the process's invocation started (history)
  lastBreak, \* the latest invocation that stopped inside the ADD COLUMN loop (history)
  prevBreak, \* lastBreak as it was when the process's invocation started (history)
  disturbed, \* another process changed the table during the invocation (history)
  focus,     \* the table whose startup in server.js is followed, "none"
             \* while the server is not running
  serial,    \* statements queued inside db.serialize, run one by one in order
  pool,      \* statements handed to the database outside db.serialize
  reqs,      \* requests served so far
  logged,    \* what the callbacks passed to console.error (history)
  table0,    \* the followed table before the server started (history)
  early,     \* statements run on a table short of a desired column (history)
  late,      \* an ADD COLUMN ran after one had failed for good (history)
  users,     \* the rows of users the requests work on: id -> flags
  messages,  \* the rows of messages, a row's id being its position
  session,   \* req.session.user of the browser that is followed
  latest,    \* the latest request and what came of it; for a newsletter
             \* also the users table as its query saw it (history)
  hits,      \* requests served so far
  inflight,  \* the newsletter whose subscriber query has returned and whose
             \* messages are not yet written
  bootPool,  \* statements of ensureAdditionalProducts and ensureAdmin handed
             \* to the database by the server processes and not yet run
  titles,    \* seeded strain -> number of products rows with its title
  admins,    \* number of users rows with email 'Admin'
  promise,   \* server process -> state of the promise of its ensureAdmin()
  boots,     \* server processes started so far
  clock,     \* the day new Date() shows, in days since 1970-01-01
  prescriptions,  \* the rows of prescriptions written by the requests
  posted     \* the latest POST /prescriptions/new: its req.body and the rows
             \* of prescriptions it found (history)

storeVars == <<db, faults>>

migVars == <<pc, dbOrPath, opened, connOpen, created, have, missing, added, err, exitCode,
             issued, before, runs, crashes, lastOk, prevOk, lastBreak, prevBreak,
             disturbed>>

srvVars == <<focus, serial, pool, reqs, logged, table0, early, late>>

webVars == <<users, messages, session, latest, hits, inflight>>

bootVars == <<bootPool, titles, admins, promise, boots>>

rxVars == <<clock, prescriptions, posted>>

vars == <<storeVars, migVars, srvVars, webVars, bootVars, rxVars>>

Active == {"wal", "fk", "exists", "create", "info", "alter"}

Stmt(op, col) == [op |-> op, col |-> col]

\* -------------------------------------------------------- initial states
\* The subsets of S with at most n elements.
SubsetsUpTo(S, n) == {M \in SUBSET S : Cardinality(M) <= n}

OldRow(cols) == [n \in NamesOf(cols) |-> "old"]

\* A products table of an earlier deployment: the primary key, the expected
\* columns but for the ones in M, and a column no target schema names.
LiveProducts(M, n) ==
  LET cols == <<PrimaryKey>>
              \o SelectSeq(EXPECTED_COLUMNS, LAMBDA c : c.name \notin M)
              \o <<LegacyColumn>>
  IN  [exists |-> TRUE, cols |-> cols, rows |-> [i \in 1..n |-> OldRow(cols)]]

InitProducts ==
  {Absent} \cup
  {LiveProducts(M, n) : M \in SubsetsUpTo(NamesOf(EXPECTED_COLUMNS), MaxMissing),
                        n \in 0..MaxRows}

NoSnapshot == [set |-> FALSE, cols |-> <<>>]

NoBreak == [set |-> FALSE, rest |-> <<>>, clean |-> FALSE, stale |-> FALSE]

\* No browser session, no request served.
NoSession == [set |-> FALSE, id |-> 0, is_admin |-> FALSE, approved |-> FALSE]

NoRequest ==
  [route |-> "none", session |-> NoSession, response |-> "none",
   handler |-> FALSE, stmts |-> {}, result |-> 0, before |-> <<>>,
   asked |-> <<>>]

NoNewsletter ==
  [set |-> FALSE, session |-> NoSession, subs |-> {}, asked |-> <<>>]

IdleWeb ==
  /\ users = <<>>
  /\ messages = <<>>
  /\ session = NoSession
  /\ latest = NoRequest
  /\ hits = 0
  /\ inflight = NoNewsletter

\* No prescription request served.
NoPost == [set |-> FALSE, body |-> <<>>, before |-> <<>>]

IdleRx ==
  /\ clock = 0
  /\ prescriptions = <<>>
  /\ posted = NoPost

\* No server process started.
IdleBoot ==
  /\ bootPool = {}
  /\ titles = <<>>
  /\ admins = 0
  /\ promise = <<>>
  /\ boots = 0

IdleScripts ==
  /\ pc = [p \in Procs |-> "idle"]
  /\ dbOrPath = [p \in Procs |-> "none"]
  /\ opened = [p \in Procs |-> FALSE]
  /\ connOpen = [p \in Procs |-> FALSE]
  /\ created = [p \in Procs |-> FALSE]
  /\ have = [p \in Procs |-> {}]
  /\ missing = [p \in Procs |-> <<>>]
  /\ added = [p \in Procs |-> <<>>]
  /\ err = [p \in Procs |-> "none"]
  /\ exitCode = [p \in Procs |-> -1]
  /\ issued = [p \in Procs |-> <<>>]
  /\ before = [p \in Procs |-> Absent]
  /\ runs = 0
  /\ crashes = 0
  /\ lastOk = NoSnapshot
  /\ prevOk = [p \in Procs |-> NoSnapshot]
  /\ lastBreak = NoBreak
  /\ prevBreak = [p \in Procs |-> NoBreak]
  /\ disturbed = [p \in Procs |-> FALSE]

InitMigrate ==
  /\ db \in [{"products"} -> InitProducts]
  /\ faults = 0
  /\ IdleScripts
  /\ focus = "none"
  /\ serial = <<>>
  /\ pool = {}
  /\ reqs = 0
  /\ logged = {}
  /\ table0 = Absent
  /\ early = {}
  /\ late = FALSE
  /\ IdleWeb
  /\ IdleBoot
  /\ IdleRx

\* ------------------------------------------- Part II: the migration script
\* A store round trip either goes through or fails for a reason of the
\* store's own (I/O error, locked file, permission).
FaultChoices == IF faults < MaxFaults THEN {FALSE, TRUE} ELSE {FALSE}

CountFault(f) == faults' = IF f THEN faults + 1 ELSE faults

\* What dbOrPath may be: the DB_PATH run-migrations passes, nothing at all,
\* or the database handle of the caller (README-HOTFIX.txt).
Arguments == {"path", "nothing", "handle"}

\* dbOrPath && typeof dbOrPath.all === 'function'
IsHandle(a) == a = "handle"

\* A faulty variant: the finally block closes whatever connection it worked on.
Finally_CloseAny(p) ==
  connOpen' = [connOpen EXCEPT ![p] = FALSE]

\* finally { if (opened && db) db.close(); }
Finally(p) ==
  connOpen' = [connOpen EXCEPT ![p] = IF opened[p] THEN FALSE ELSE @]

\* process.exit(code) of run-migrations; another caller goes on running.
Exit(p, code) ==
  exitCode' = [exitCode EXCEPT ![p] = IF dbOrPath[p] = "path" THEN code ELSE @]

\* A faulty variant: a catch-all swallows the error and the call reports a result.
Settle_Swallow(p, e) ==
  /\ pc' = [pc EXCEPT ![p] = "done"]
  /\ err' = [err EXCEPT ![p] = "none"]
  /\ Exit(p, 0)
  /\ Finally(p)

\* The end of ensureProductsSchema and of run-migrations: the finally block
\* closes a connection the call opened itself, then the script exits with 0
\* on a result and with 1 on an error.
Settle(p, e) ==
  /\ pc' = [pc EXCEPT ![p] = IF e = "none" THEN "done" ELSE "failed"]
  /\ err' = [err EXCEPT ![p] = e]
  /\ Exit(p, IF e = "none" THEN 0 ELSE 1)
  /\ Finally(p)

Continue(p, next) ==
  /\ pc' = [pc EXCEPT ![p] = next]
  /\ UNCHANGED <<err, exitCode, connOpen>>

\* History: the invocation returned, leaving the table t.
NoteOk(e, t) ==
  lastOk' = IF e = "none" THEN [set |-> TRUE, cols |-> t.cols] ELSE lastOk

\* History: the invocation has changed the table (w), which disturbs the
\* other invocations in progress and outdates an earlier interruption.
NoteWrite(p, w) ==
  /\ disturbed' = [q \in Procs |->
                     IF w /\ q # p /\ pc[q] \in Active THEN TRUE ELSE disturbed[q]]
  /\ lastBreak' = IF w THEN [lastBreak EXCEPT !.stale = TRUE] ELSE lastBreak

\* History: the invocation stops here; inside the loop, after some but not
\* all of its missing columns, it leaves the rest to a later invocation.
NoteBreak(p) ==
  lastBreak' =
    IF pc[p] = "alter" /\ added[p] # <<>>
    THEN [set |-> TRUE,
          rest |-> SubSeq(MapNames(missing[p]), Len(added[p]) + 1, Len(missing[p])),
          clean |-> ~disturbed[p],
          stale |-> FALSE]
    ELSE lastBreak

\* rows.length === 0
TableMissing(rows) == Len(rows) = 0

\* A faulty variant: the key column is left out of the list.
CreateColumns_NoKey == EXPECTED_COLUMNS

\* The column list of CREATE TABLE products: the key, then every expected
\* column as `name ddl`.
CreateColumns == <<PrimaryKey>> \o EXPECTED_COLUMNS

\* A faulty variant: the filter runs over all but the last expected column.
MissingOf_DropLast(h) ==
  SelectSeq(SubSeq(EXPECTED_COLUMNS, 1, Len(EXPECTED_COLUMNS) - 1),
            LAMBDA c : c.name \notin h)

\* EXPECTED_COLUMNS.filter(c => !have.has(c.name))
MissingOf(h) == SelectSeq(EXPECTED_COLUMNS, LAMBDA c : c.name \notin h)

\* A faulty variant: the column is added by rebuilding the table, which loses its rows.
AlterStatement_Rebuild(t, col) ==
  IF ~t.exists \/ col.name \in NamesOf(t.cols)
  THEN SqlAddColumn(t, col)
  ELSE [err |-> "none", tbl |-> [t EXCEPT !.cols = Append(@, col), !.rows = <<>>]]

\* The statement of the loop body: ALTER TABLE products ADD COLUMN name ddl.
AlterStatement(t, col) == SqlAddColumn(t, col)

\* A faulty variant: the loop returns after its first pass.
LoopOver_FirstPass(p, n) == TRUE

\* The for-of loop is over once every element of `missing` had its pass.
LoopOver(p, n) == n = Len(missing[p])

\* The head of ensureProductsSchema(dbOrPath): db = dbOrPath, opened = false;
\* unless dbOrPath is a handle, db = new sqlite3.Database(DB_PATH) and
\* opened = true. A handle passed in is the caller's open connection.
Invoke(p, a) ==
  /\ UNCHANGED <<srvVars, webVars, bootVars, rxVars>>
  /\ focus = "none"
  /\ pc[p] \notin Active
  /\ runs < MaxRuns
  /\ runs' = runs + 1
  /\ pc' = [pc EXCEPT ![p] = "wal"]
  /\ dbOrPath' = [dbOrPath EXCEPT ![p] = a]
  /\ opened' = [opened EXCEPT ![p] = ~IsHandle(a)]
  /\ connOpen' = [connOpen EXCEPT ![p] = TRUE]
  /\ created' = [created EXCEPT ![p] = FALSE]
  /\ have' = [have EXCEPT ![p] = {}]
  /\ missing' = [missing EXCEPT ![p] = <<>>]
  /\ added' = [added EXCEPT ![p] = <<>>]
  /\ before' = [before EXCEPT ![p] = db["products"]]
  /\ err' = [err EXCEPT ![p] = "none"]
  /\ exitCode' = [exitCode EXCEPT ![p] = -1]
  /\ issued' = [issued EXCEPT ![p] = <<>>]
  /\ prevOk' = [prevOk EXCEPT ![p] = lastOk]
  /\ prevBreak' = [prevBreak EXCEPT ![p] = lastBreak]
  /\ disturbed' = [disturbed EXCEPT ![p] = FALSE]
  /\ UNCHANGED <<storeVars, crashes, lastOk, lastBreak>>

\* node scripts/run-migrations.js: ensureProductsSchema(DB_PATH) opens its
\* own connection.
Start(p) == Invoke(p, "path")

\* A call from elsewhere: ensureProductsSchema() or ensureProductsSchema(db).
Call(p) == \E a \in Arguments \ {"path"} : Invoke(p, a)

\* await run(db, "PRAGMA journal_mode=WAL"); await run(db, "PRAGMA foreign_keys=ON")
RunPragma(p) ==
  /\ UNCHANGED <<srvVars, webVars, bootVars, rxVars>>
  /\ pc[p] \in {"wal", "fk"}
  /\ \E f \in FaultChoices :
       /\ CountFault(f)
       /\ IF f THEN Settle(p, "SQLITE_IOERR")
          ELSE Continue(p, IF pc[p] = "wal" THEN "fk" ELSE "exists")
  /\ issued' = [issued EXCEPT ![p] = Append(@, Stmt("PRAGMA " \o pc[p], ""))]
  /\ UNCHANGED <<db, dbOrPath, opened, created, have, missing, added, before, runs,
                 crashes, lastOk, prevOk, lastBreak, prevBreak, disturbed>>

\* const rows = await query(db, "SELECT name FROM sqlite_master ...")
QueryMaster(p) ==
  /\ UNCHANGED <<srvVars, webVars, bootVars, rxVars>>
  /\ pc[p] = "exists"
  /\ \E f \in FaultChoices :
       /\ CountFault(f)
       /\ IF f THEN Settle(p, "SQLITE_IOERR")
          ELSE Continue(p, IF TableMissing(SqlMaster(db["products"]))
                           THEN "create" ELSE "info")
  /\ issued' = [issued EXCEPT ![p] = Append(@, Stmt("SELECT sqlite_master", ""))]
  /\ UNCHANGED <<db, dbOrPath, opened, created, have, missing, added, before, runs,
                 crashes, lastOk, prevOk, lastBreak, prevBreak, disturbed>>

\* await run(db, `CREATE TABLE products (...)`); return {created: true, added: []}
CreateTable(p) ==
  /\ UNCHANGED <<srvVars, webVars, bootVars, rxVars>>
  /\ pc[p] = "create"
  /\ \E f \in FaultChoices :
       LET r == IF f THEN [err |-> "SQLITE_IOERR", tbl |-> db["products"]]
                ELSE SqlCreateTable(db["products"], CreateColumns)
       IN  /\ CountFault(f)
           /\ db' = [db EXCEPT !["products"] = r.tbl]
           /\ created' = [created EXCEPT ![p] = (r.err = "none")]
           /\ Settle(p, r.err)
           /\ NoteOk(r.err, r.tbl)
           /\ NoteWrite(p, r.err = "none")
  /\ issued' = [issued EXCEPT ![p] = Append(@, Stmt("CREATE TABLE", ""))]
  /\ UNCHANGED <<dbOrPath, opened, have, missing, added, before, runs, crashes, prevOk,
                 prevBreak>>

\* const info = await query(db, "PRAGMA table_info(products)"); have; missing;
\* added = []; with nothing missing the loop body never runs and the call returns.
Introspect(p) ==
  /\ UNCHANGED <<srvVars, webVars, bootVars, rxVars>>
  /\ pc[p] = "info"
  /\ \E f \in FaultChoices :
       LET info == SqlTableInfo(db["products"])
           miss == MissingOf(NamesOf(info))
       IN  /\ CountFault(f)
           /\ IF f
              THEN /\ Settle(p, "SQLITE_IOERR")
                   /\ UNCHANGED <<have, missing, lastOk>>
              ELSE /\ have' = [have EXCEPT ![p] = NamesOf(info)]
                   /\ missing' = [missing EXCEPT ![p] = miss]
                   /\ IF miss = <<>>
                      THEN Settle(p, "none") /\ NoteOk("none", db["products"])
                      ELSE Continue(p, "alter") /\ UNCHANGED lastOk
  /\ issued' = [issued EXCEPT ![p] = Append(@, Stmt("PRAGMA table_info", ""))]
  /\ UNCHANGED <<db, dbOrPath, opened, created, added, before, runs, crashes, prevOk,
                 lastBreak, prevBreak, disturbed>>

\* One pass of `for (const col of missing)`: await run(db, ALTER TABLE ... ADD
\* COLUMN); added.push(col.name). A rejected run leaves the loop and the call.
AddColumn(p) ==
  /\ UNCHANGED <<srvVars, webVars, bootVars, rxVars>>
  /\ pc[p] = "alter"
  /\ \E f \in FaultChoices :
       LET col == missing[p][Len(added[p]) + 1]
           r == IF f THEN [err |-> "SQLITE_IOERR", tbl |-> db["products"]]
                ELSE AlterStatement(db["products"], col)
           last == LoopOver(p, Len(added[p]) + 1)
       IN  /\ CountFault(f)
           /\ db' = [db EXCEPT !["products"] = r.tbl]
           /\ issued' = [issued EXCEPT ![p] = Append(@, Stmt("ADD COLUMN", col.name))]
           /\ IF r.err = "none"
              THEN /\ added' = [added EXCEPT ![p] = Append(@, col.name)]
                   /\ IF last THEN Settle(p, "none") /\ NoteOk("none", r.tbl)
                      ELSE Continue(p, "alter") /\ UNCHANGED lastOk
                   /\ NoteWrite(p, TRUE)
              ELSE /\ Settle(p, r.err)
                   /\ NoteBreak(p)
                   /\ UNCHANGED <<added, lastOk, disturbed>>
  /\ UNCHANGED <<dbOrPath, opened, created, have, missing, before, runs, crashes, prevOk,
                 prevBreak>>

\* The process is killed between two round trips: nothing of the call runs
\* any more, and the operating system drops its connection.
Crash(p) ==
  /\ UNCHANGED <<srvVars, webVars, bootVars, rxVars>>
  /\ pc[p] \in Active
  /\ crashes < MaxCrashes
  /\ crashes' = crashes + 1
  /\ pc' = [pc EXCEPT ![p] = "crashed"]
  /\ connOpen' = [connOpen EXCEPT ![p] = FALSE]
  /\ NoteBreak(p)
  /\ UNCHANGED <<storeVars, dbOrPath, opened, created, have, missing, added, err,
                 exitCode, issued, before, runs, lastOk, prevOk, prevBreak,
                 disturbed>>

Step(p) ==
  \/ Start(p)
  \/ RunPragma(p)
  \/ QueryMaster(p)
  \/ CreateTable(p)
  \/ Introspect(p)
  \/ AddColumn(p)
  \/ Crash(p)

\* One process at a time: the script is run, and run again after it ended.
NextMigrate == Step("m1")

SpecMigrate == InitMigrate /\ [][NextMigrate]_vars

\* The script and the other callers of ensureProductsSchema, one call at a
\* time.
NextCallers == Step("m1") \/ Call("m1")

\* The callers are followed on tables that lack some of the three columns
\* with a default, the last of EXPECTED_COLUMNS.
InitCallers ==
  /\ InitMigrate
  /\ db["products"] \in
       {Absent} \cup
       {LiveProducts(M, n) :
          M \in SubsetsUpTo({"is_active", "created_at", "updated_at"}, MaxMissing),
          n \in 0..MaxRows}

SpecCallers == InitCallers /\ [][NextCallers]_vars

\* Two instances of the script against the same database file.
NextRace == \E p \in Procs : Step(p)

SpecRace == InitMigrate /\ [][NextRace]_vars

\* -------------------------------------------- Part III: server.js startup
Tables == {"products", "users", "prescriptions"}

Min(a, b) == IF a < b THEN a ELSE b

\* The column lists of the three CREATE TABLE IF NOT EXISTS statements.
CreateSchema(t) ==
  CASE t = "users" ->
         << PrimaryKey,
            Col("username", "TEXT UNIQUE"),
            Col("email", "TEXT UNIQUE"),
            Col("phone", "TEXT"),
            Col("password_hash", "TEXT NOT NULL"),
            Col("is_admin", "INTEGER DEFAULT 0"),
            Col("approved", "INTEGER DEFAULT 0"),
            Col("newsletter_opt_in", "INTEGER DEFAULT 0"),
            Col("created_at", "DATETIME DEFAULT CURRENT_TIMESTAMP") >>
    [] t = "products" ->
         << PrimaryKey,
            Col("title", "TEXT NOT NULL"),
            Col("description", "TEXT NOT NULL"),
            Col("price", "REAL NOT NULL"),
            Col("image", "TEXT NOT NULL") >>
    [] t = "prescriptions" ->
         << PrimaryKey,
            Col("user_id", "INTEGER"),
            Col("insurance", "TEXT"),
            Col("patient_name", "TEXT"),
            Col("patient_birth", "TEXT"),
            Col("insurance_number", "TEXT"),
            Col("doctor_practice", "TEXT"),
            Col("doctor_number", "TEXT"),
            Col("date", "TEXT"),
            Col("medication1", "TEXT"),
            Col("medication2", "TEXT"),
            Col("medication3", "TEXT"),
            Col("created_at", "DATETIME DEFAULT CURRENT_TIMESTAMP") >>

\* The list `desired` of extendPrescriptionSchema; "null" stands for an entry
\* without a defaultExpr.
Want(n, t, d) == [name |-> n, type |-> t, defaultExpr |-> d]

desired ==
  << Want("street", "TEXT", "''"),
     Want("house_number", "TEXT", "''"),
     Want("zip_code", "TEXT", "''"),
     Want("city", "TEXT", "''"),
     Want("indication", "TEXT", "''"),
     Want("indication_other", "TEXT", "null"),
     Want("previous_cannabis", "INTEGER", "0"),
     Want("medication_grams", "REAL", "null"),
     Want("medication_strain", "TEXT", "null"),
     Want("medication_text", "TEXT", "null"),
     Want("cost_confirmed", "INTEGER", "0") >>

\* A faulty variant: the DEFAULT clause is left out.
AlterDeclaration_NoDefault(col) == col.type

\* `${col.type}${defaultClause}` of the ALTER TABLE statement.
AlterDeclaration(col) ==
  IF col.defaultExpr # "null"
  THEN col.type \o " DEFAULT " \o col.defaultExpr
  ELSE col.type

\* The columns extendProductSchema, extendUserSchema and
\* extendPrescriptionSchema look for, each with the declaration its ALTER
\* TABLE statement gives it.
desiredColumns(t) ==
  CASE t = "products" ->
         << Col("thc", "TEXT DEFAULT ''"),
            Col("cbd", "TEXT DEFAULT ''"),
            Col("effects", "TEXT DEFAULT ''"),
            Col("aroma", "TEXT DEFAULT ''"),
            Col("terpenes", "TEXT DEFAULT ''") >>
    [] t = "users" ->
         << Col("username", "TEXT"),
            Col("phone", "TEXT"),
            Col("newsletter_opt_in", "INTEGER DEFAULT 0") >>
    [] t = "prescriptions" ->
         [i \in DOMAIN desired |-> Col(desired[i].name, AlterDeclaration(desired[i]))]

\* The entries of the list that are followed.
Desired(t) == SubSeq(desiredColumns(t), 1, Min(Len(desiredColumns(t)), MaxDesired))

\* The titles of the strains ensureAdditionalProducts seeds.
additional ==
  << "Remexian Grape Galena 27/1",
     "Peace Naturals GMO Cookies 31/1",
     "AMICI Blueberry Headband 22/1" >>

Seeds == 1..Min(Len(additional), MaxSeeds)

\* The columns the INSERT of a request names: POST /admin/products/new,
\* POST /register, POST /prescriptions/new.
requestInsert(t) ==
  CASE t = "products" ->
         << "title", "description", "price", "image", "thc", "cbd", "effects",
            "aroma", "terpenes" >>
    [] t = "users" ->
         << "username", "email", "phone", "password_hash", "newsletter_opt_in",
            "is_admin", "approved" >>
    [] t = "prescriptions" ->
         << "user_id", "insurance", "patient_name", "patient_birth",
            "insurance_number", "doctor_practice", "doctor_number", "date",
            "medication1", "medication2", "medication3", "street",
            "house_number", "zip_code", "city", "indication",
            "indication_other", "previous_cannabis", "medication_grams",
            "medication_strain", "medication_text", "cost_confirmed" >>

\* The columns the seeding INSERT of ensureAdditionalProducts names.
seedInsert ==
  << "title", "description", "price", "image", "thc", "cbd", "effects", "aroma",
     "terpenes" >>

\* Of a statement's columns, the ones among the columns that are followed.
Followed(t, names) ==
  LET followed == NamesOf(CreateSchema(t)) \cup NamesOf(Desired(t))
      all == NamesOf(desiredColumns(t))
  IN  {n \in Range(names) : n \in followed \/ n \notin all}

RequestRow(t) == [n \in Followed(t, requestInsert(t)) |-> "request"]

SeedRow(i) ==
  [n \in Followed("products", seedInsert) |->
     IF n = "title" THEN additional[i] ELSE "seed"]

\* CREATE TABLE IF NOT EXISTS t (cols)
SqlCreateIfNotExists(t, cols) ==
  IF t.exists THEN t ELSE [exists |-> TRUE, cols |-> cols, rows |-> <<>>]

DeclaredDefault(cols, n) ==
  IF n = "id" THEN "auto"
  ELSE DefaultValue((CHOOSE c \in Range(cols) : c.name = n).ddl)

\* INSERT INTO t (names) VALUES (...): fails when the table is missing or
\* lacks a named column; the columns not named get their defaults.
SqlInsert(t, row) ==
  IF ~t.exists
  THEN [err |-> "no such table", tbl |-> t]
  ELSE LET names == NamesOf(t.cols)
       IN  IF \E n \in DOMAIN row : n \notin names
           THEN [err |-> "has no column named", tbl |-> t]
           ELSE [err |-> "none",
                 tbl |-> [t EXCEPT !.rows =
                            Append(@, [n \in names |->
                                         IF n \in DOMAIN row THEN row[n]
                                         ELSE DeclaredDefault(t.cols, n)])]]

\* SELECT id FROM products WHERE title = ?
SqlSelectTitle(t, title) ==
  {i \in DOMAIN t.rows : "title" \in DOMAIN t.rows[i] /\ t.rows[i]["title"] = title}

NoCol == Col("", "")

Statement(op, col, seed) == [op |-> op, col |-> col, seed |-> seed]

LogEntry(op, col, msg) == [op |-> op, col |-> col, msg |-> msg]

\* db.serialize(() => { CREATE users; CREATE products })
StartupSerial(t) ==
  IF t \in {"users", "products"} THEN <<Statement("CREATE", NoCol, 0)>> ELSE <<>>

\* What the module hands to the database while it loads: the PRAGMA of the
\* extend function, the CREATE of ensurePrescriptionTable, the SELECTs of
\* ensureAdditionalProducts.
StartupPool(t) ==
  {Statement("PRAGMA", NoCol, 0)}
  \cup (IF t = "prescriptions" THEN {Statement("CREATE", NoCol, 0)} ELSE {})
  \cup (IF t = "products" THEN {Statement("SELECT seed", NoCol, i) : i \in Seeds}
        ELSE {})

\* A table of an earlier deployment: what CREATE TABLE gave it then, and the
\* desired columns but for the ones in M, as ALTER TABLE added them.
OlderTable(t, M, n) ==
  LET cols == SelectSeq(CreateSchema(t),
                        LAMBDA c : c.name \notin NamesOf(desiredColumns(t)))
              \o SelectSeq(Desired(t), LAMBDA c : c.name \notin M)
  IN  [exists |-> TRUE, cols |-> cols, rows |-> [i \in 1..n |-> OldRow(cols)]]

InitTables(t) ==
  {Absent} \cup
  {OlderTable(t, M, n) : M \in SubsetsUpTo(NamesOf(Desired(t)), MaxMissing),
                         n \in 0..MaxRows}

InitStartup ==
  /\ focus \in Tables
  /\ db \in [{focus} -> InitTables(focus)]
  /\ table0 = db[focus]
  /\ faults = 0
  /\ serial = StartupSerial(focus)
  /\ pool = StartupPool(focus)
  /\ reqs = 0
  /\ logged = {}
  /\ early = {}
  /\ late = FALSE
  /\ IdleScripts
  /\ IdleWeb
  /\ IdleBoot
  /\ IdleRx

\* The followed table is short of a desired column.
Lacks(t) == ~t.exists \/ ~(NamesOf(Desired(focus)) \subseteq NamesOf(t.cols))

\* An ADD COLUMN has failed with an error other than "duplicate column name".
FatalLogged ==
  \E e \in logged : e.op = "ALTER" /\ e.msg # "duplicate column name"

\* The callbacks of the ALTER statements: extendProductSchema and
\* extendUserSchema pass over "duplicate column name", extendPrescriptionSchema
\* reports every error.
AlterErrorLogged(t, e) ==
  IF t = "prescriptions" THEN e # "none"
  ELSE e # "none" /\ e # "duplicate column name"

Log(yes, entry) == logged' = IF yes THEN logged \cup {entry} ELSE logged

\* A statement queued inside db.serialize runs before everything queued later.
RunSerialized ==
  /\ focus # "none"
  /\ serial # <<>>
  /\ db' = [db EXCEPT ![focus] = SqlCreateIfNotExists(@, CreateSchema(focus))]
  /\ serial' = Tail(serial)
  /\ UNCHANGED <<faults, migVars, webVars, bootVars, rxVars, focus, pool, reqs, logged, table0, early, late>>

\* ensurePrescriptionTable: CREATE TABLE IF NOT EXISTS prescriptions, handed
\* to the database outside db.serialize.
RunCreate ==
  /\ serial = <<>>
  /\ \E s \in pool :
       /\ s.op = "CREATE"
       /\ db' = [db EXCEPT ![focus] = SqlCreateIfNotExists(@, CreateSchema(focus))]
       /\ pool' = pool \ {s}
  /\ UNCHANGED <<faults, migVars, webVars, bootVars, rxVars, focus, serial, reqs, logged, table0, early, late>>

\* db.all('PRAGMA table_info(t)', (err, rows) => ...): on an error the
\* callback reports it and returns; otherwise it hands one ALTER TABLE to the
\* database for every desired column the rows do not show.
RunTableInfo ==
  /\ serial = <<>>
  /\ \E s \in pool, f \in FaultChoices :
       /\ s.op = "PRAGMA"
       /\ CountFault(f)
       /\ LET existing == NamesOf(SqlTableInfo(db[focus]))
              alters == {Statement("ALTER", c, 0) :
                           c \in {d \in Range(Desired(focus)) : d.name \notin existing}}
          IN  /\ pool' = (pool \ {s}) \cup (IF f THEN {} ELSE alters)
              /\ Log(f, LogEntry("PRAGMA", "", "SQLITE_IOERR"))
  /\ UNCHANGED <<db, migVars, webVars, bootVars, rxVars, focus, serial, reqs, table0, early, late>>

\* One ALTER TABLE t ADD COLUMN and its callback.
RunAlter ==
  /\ serial = <<>>
  /\ \E s \in pool, f \in FaultChoices :
       /\ s.op = "ALTER"
       /\ CountFault(f)
       /\ LET r == IF f THEN [err |-> "SQLITE_IOERR", tbl |-> db[focus]]
                   ELSE SqlAddColumn(db[focus], s.col)
          IN  /\ db' = [db EXCEPT ![focus] = r.tbl]
              /\ Log(AlterErrorLogged(focus, r.err),
                     LogEntry("ALTER", s.col.name, r.err))
       /\ pool' = pool \ {s}
       /\ late' = (late \/ FatalLogged)
  /\ UNCHANGED <<migVars, webVars, bootVars, rxVars, focus, serial, reqs, table0, early>>

\* db.get('SELECT id FROM products WHERE title = ?', ...): on an error the
\* callback reports it and returns; without a row it hands the INSERT to the
\* database.
RunSeedSelect ==
  /\ serial = <<>>
  /\ \E s \in pool :
       /\ s.op = "SELECT seed"
       /\ LET row == SqlSelectTitle(db[focus], additional[s.seed])
          IN  pool' = (pool \ {s})
                      \cup (IF row = {}
                            THEN {Statement("INSERT seed", NoCol, s.seed)} ELSE {})
  /\ UNCHANGED <<storeVars, migVars, webVars, bootVars, rxVars, focus, serial, reqs, logged, table0, early, late>>

\* The seeding INSERT and its callback.
RunSeedInsert ==
  /\ serial = <<>>
  /\ \E s \in pool :
       /\ s.op = "INSERT seed"
       /\ LET r == SqlInsert(db[focus], SeedRow(s.seed))
          IN  /\ db' = [db EXCEPT ![focus] = r.tbl]
              /\ Log(r.err # "none", LogEntry("INSERT seed", additional[s.seed], r.err))
       /\ pool' = pool \ {s}
       /\ early' = IF Lacks(db[focus]) THEN early \cup {"seed"} ELSE early
  /\ UNCHANGED <<faults, migVars, webVars, bootVars, rxVars, focus, serial, reqs, table0, late>>

\* app.listen is called while the module loads: a request is served whenever
\* it arrives, and its INSERT is handed to the database like any statement.
RunRequest ==
  /\ focus # "none"
  /\ serial = <<>>
  /\ reqs < MaxRequests
  /\ reqs' = reqs + 1
  /\ LET r == SqlInsert(db[focus], RequestRow(focus))
     IN  /\ db' = [db EXCEPT ![focus] = r.tbl]
         /\ Log(r.err # "none" /\ focus = "prescriptions",
                LogEntry("INSERT request", "", r.err))
  /\ early' = IF Lacks(db[focus]) THEN early \cup {"request"} ELSE early
  /\ UNCHANGED <<faults, migVars, webVars, bootVars, rxVars, focus, serial, pool, table0, late>>

NextStartup ==
  \/ RunSerialized
  \/ RunCreate
  \/ RunTableInfo
  \/ RunAlter
  \/ RunSeedSelect
  \/ RunSeedInsert
  \/ RunRequest

SpecStartup == InitStartup /\ [][NextStartup]_vars

\* Either the migration script is run and run again, or the server starts.
InitReconcilers == InitMigrate \/ InitStartup

NextReconcilers == NextMigrate \/ NextStartup

SpecReconcilers == InitReconcilers /\ [][NextReconcilers]_vars

\* ------------------------------------------ Part IV: the routes of server.js
UserIds == {1, 2, 3}

\* ensureAdmin's user and the users POST /register has inserted (is_admin 0,
\* approved 0), some of them approved since by POST /admin/approve/:id.
InitUsers ==
  {u \in [UserIds -> [is_admin : BOOLEAN, approved : BOOLEAN,
                      newsletter_opt_in : BOOLEAN]] :
     /\ u[1].is_admin /\ u[1].approved
     /\ \A i \in UserIds \ {1} : ~u[i].is_admin}

InitWeb ==
  /\ db = <<>>
  /\ faults = 0
  /\ IdleScripts
  /\ focus = "none"
  /\ serial = <<>>
  /\ pool = {}
  /\ reqs = 0
  /\ logged = {}
  /\ table0 = Absent
  /\ early = {}
  /\ late = FALSE
  /\ users \in InitUsers
  /\ messages = <<>>
  /\ session = NoSession
  /\ latest = NoRequest
  /\ hits = 0
  /\ inflight = NoNewsletter
  /\ IdleBoot
  /\ IdleRx

\* A faulty variant: the approval is not looked at.
requireAuth_SessionOnly(s) ==
  IF ~s.set THEN "redirect /login" ELSE "next"

\* function requireAuth(req, res, next)
requireAuth(s) ==
  IF ~s.set THEN "redirect /login"
  ELSE IF ~s.approved /\ ~s.is_admin THEN "render awaiting"
  ELSE "next"

\* A faulty variant: the flag is not looked at.
requireAdmin_AuthOnly(s) == requireAuth(s)

\* function requireAdmin(req, res, next)
requireAdmin(s) ==
  IF requireAuth(s) # "next" THEN requireAuth(s)
  ELSE IF ~s.is_admin THEN "redirect /showroom"
  ELSE "next"

\* The routes registered with requireAuth whose handlers only read, each
\* with the statements its handler sends for session user s.
AuthRoutes ==
  {"GET /showroom", "GET /admin", "GET /prescriptions/new",
   "GET /prescriptions/success", "GET /inbox"}

\* The routes registered with requireAdmin, but for the two that write
\* messages.
AdminRoutes ==
  {"GET /admin/products", "GET /admin/products/new", "POST /admin/products/new",
   "GET /admin/products/:id", "GET /admin/products/:id/edit",
   "POST /admin/products/:id/edit", "POST /admin/products/:id/delete",
   "GET /prescriptions/:id/print", "GET /admin/prescriptions",
   "GET /admin/newsletter", "GET /admin/newsletter/csv",
   "GET /admin/users/:id/message"}

\* The statements the handler of a route sends to the database.
HandlerStatements(route, s) ==
  CASE route = "GET /showroom" -> IF s.is_admin THEN {} ELSE {"SELECT products"}
    [] route = "GET /admin" -> IF s.is_admin THEN {"SELECT users"} ELSE {}
    [] route = "GET /inbox" -> {"SELECT messages"}
    [] route \in {"GET /admin/products", "GET /admin/products/:id",
                  "GET /admin/products/:id/edit"} -> {"SELECT products"}
    [] route = "POST /admin/products/new" -> {"INSERT products"}
    [] route = "POST /admin/products/:id/edit" ->
         {"SELECT products", "UPDATE products"}
    [] route = "POST /admin/products/:id/delete" -> {"DELETE products"}
    [] route \in {"GET /prescriptions/:id/print", "GET /admin/prescriptions"} ->
         {"SELECT prescriptions"}
    [] route \in {"GET /admin/newsletter/csv", "GET /admin/users/:id/message"} ->
         {"SELECT users"}
    [] OTHER -> {}

Gate(route) ==
  IF route \in AdminRoutes
       \cup {"POST /admin/newsletter/send", "POST /admin/users/:id/message"}
  THEN requireAdmin(session)
  ELSE requireAuth(session)

\* What is remembered of a request.
Served(route, response, handler, stmts, result) ==
  latest' = [route |-> route, session |-> session, response |-> response,
             handler |-> handler, stmts |-> stmts, result |-> result,
             before |-> messages, asked |-> <<>>]

\* The request was turned away by its middleware.
Refused(route) == Served(route, Gate(route), FALSE, {}, 0)

Hit ==
  /\ hits < MaxHits
  /\ hits' = hits + 1
  /\ UNCHANGED <<db, migVars, srvVars, bootVars, rxVars>>

\* The store can fail a statement only where the handler sends one.
StoreFaults(sends) == IF sends THEN FaultChoices ELSE {FALSE}

\* POST /login: the user is looked up and, the password matching, stored in
\* the session.
Login(u, match) ==
  /\ Hit
  /\ session' = IF match
                THEN [set |-> TRUE, id |-> u, is_admin |-> users[u].is_admin,
                      approved |-> users[u].approved]
                ELSE session
  /\ Served("POST /login",
            IF ~match THEN "render login"
            ELSE IF users[u].is_admin THEN "redirect /admin"
            ELSE "redirect /showroom",
            TRUE, {"SELECT users"}, 0)
  /\ UNCHANGED <<faults, users, messages, inflight>>

\* GET /logout
Logout ==
  /\ Hit
  /\ session' = NoSession
  /\ Served("GET /logout", "redirect /login", TRUE, {}, 0)
  /\ UNCHANGED <<faults, users, messages, inflight>>

\* A route whose handler only reads, or writes a table that is not followed.
Visit(route) ==
  /\ Hit
  /\ IF Gate(route) = "next"
     THEN Served(route, "handled", TRUE, HandlerStatements(route, session), 0)
     ELSE Refused(route)
  /\ UNCHANGED <<faults, users, messages, session, inflight>>

\* POST /admin/approve/:id
Approve(u) ==
  /\ Hit
  /\ \E f \in StoreFaults(Gate("POST /admin/approve/:id") = "next"
                              /\ session.is_admin) :
       /\ CountFault(f)
       /\ IF Gate("POST /admin/approve/:id") # "next"
          THEN Refused("POST /admin/approve/:id") /\ UNCHANGED users
          ELSE IF ~session.is_admin
          THEN /\ Served("POST /admin/approve/:id", "403", TRUE, {}, 0)
               /\ UNCHANGED users
          ELSE /\ users' = IF f THEN users
                           ELSE [users EXCEPT ![u].approved = TRUE]
               /\ Served("POST /admin/approve/:id",
                         IF f THEN "500" ELSE "redirect /admin",
                         TRUE, {"UPDATE users"}, 0)
  /\ UNCHANGED <<messages, session, inflight>>

\* A row of messages as the INSERT statements of the routes write it:
\* read_at is not named and stays NULL.
Message(recipient, sender, subject) ==
  [recipient_id |-> recipient, sender_id |-> sender, subject |-> subject,
   read_at |-> "NULL"]

\* A faulty variant: the recipient is not compared.
UpdateReadAt_AnyRecipient(rows, id, userId) ==
  [i \in DOMAIN rows |->
     IF i = id THEN [rows[i] EXCEPT !.read_at = "CURRENT_TIMESTAMP"] ELSE rows[i]]

\* UPDATE messages SET read_at = CURRENT_TIMESTAMP
\*   WHERE id = ? AND recipient_id = ?
UpdateReadAt(rows, id, userId) ==
  [i \in DOMAIN rows |->
     IF i = id /\ rows[i].recipient_id = userId
     THEN [rows[i] EXCEPT !.read_at = "CURRENT_TIMESTAMP"]
     ELSE rows[i]]

\* POST /messages/:id/read: the callback redirects whether or not the
\* statement failed.
MarkRead(id) ==
  /\ Hit
  /\ \E f \in StoreFaults(Gate("POST /messages/:id/read") = "next") :
       /\ CountFault(f)
       /\ IF Gate("POST /messages/:id/read") # "next"
          THEN Refused("POST /messages/:id/read") /\ UNCHANGED messages
          ELSE /\ messages' = IF f THEN messages
                              ELSE UpdateReadAt(messages, id, session.id)
               /\ Served("POST /messages/:id/read", "redirect /inbox", TRUE,
                         {"UPDATE messages"}, id)
  /\ UNCHANGED <<users, session, inflight>>

\* A faulty variant: the messages that were read are counted as well.
CountUnread_All(rows, userId) ==
  Cardinality({i \in DOMAIN rows : rows[i].recipient_id = userId})

\* SELECT COUNT(*) AS count FROM messages
\*   WHERE recipient_id = ? AND read_at IS NULL
CountUnread(rows, userId) ==
  Cardinality({i \in DOMAIN rows :
                 rows[i].recipient_id = userId /\ rows[i].read_at = "NULL"})

\* GET /api/unread-count
UnreadCount ==
  /\ Hit
  /\ \E f \in StoreFaults(Gate("GET /api/unread-count") = "next") :
       /\ CountFault(f)
       /\ IF Gate("GET /api/unread-count") # "next"
          THEN Refused("GET /api/unread-count")
          ELSE Served("GET /api/unread-count",
                      IF f THEN "json after error" ELSE "json", TRUE,
                      {"SELECT messages"},
                      IF f THEN 0 ELSE CountUnread(messages, session.id))
  /\ UNCHANGED <<users, messages, session, inflight>>

\* A faulty variant: the approval is left out of the query.
Subscribers_Unapproved(rows) ==
  {u \in DOMAIN rows : rows[u].newsletter_opt_in}

\* SELECT id FROM users WHERE approved = 1 AND newsletter_opt_in = 1
Subscribers(rows) ==
  {u \in DOMAIN rows : rows[u].approved /\ rows[u].newsletter_opt_in}

\* The ids of a result in the order of the table.
InOrder(ids) ==
  CHOOSE q \in [1..Cardinality(ids) -> ids] :
    \A i, j \in 1..Cardinality(ids) : i < j => q[i] < q[j]

\* POST /admin/newsletter/send up to the callback of the subscriber query.
NewsletterSend(subject, body) ==
  /\ Hit
  /\ ~inflight.set
  /\ LET route == "POST /admin/newsletter/send"
         asks == Gate(route) = "next" /\ subject /\ body
     IN  \E f \in StoreFaults(asks) :
           /\ CountFault(f)
           /\ IF Gate(route) # "next"
              THEN Refused(route) /\ UNCHANGED inflight
              ELSE IF ~subject \/ ~body
              THEN /\ Served(route, "render error: required", TRUE, {}, 0)
                   /\ UNCHANGED inflight
              ELSE IF f
              THEN /\ Served(route, "render error: query failed", TRUE,
                             {"SELECT users"}, 0)
                   /\ UNCHANGED inflight
              ELSE IF Subscribers(users) = {}
              THEN /\ Served(route, "render info: no subscribers", TRUE,
                             {"SELECT users"}, 0)
                   /\ UNCHANGED inflight
              ELSE /\ Served(route, "pending", TRUE, {"SELECT users"}, 0)
                   /\ inflight' = [set |-> TRUE, session |-> session,
                                   subs |-> Subscribers(users),
                                   asked |-> users]
  /\ UNCHANGED <<users, messages, session>>

\* users.forEach(u => stmt.run(u.id, req.session.user.id, subject, body));
\* stmt.finalize(() => res.render(... success ...))
NewsletterInsert ==
  /\ inflight.set
  /\ LET ids == InOrder(inflight.subs)
     IN  messages' = messages \o
           [i \in DOMAIN ids |->
              Message(ids[i], inflight.session.id, "newsletter")]
  /\ latest' = [route |-> "POST /admin/newsletter/send",
                session |-> inflight.session,
                response |-> "render success",
                handler |-> TRUE,
                stmts |-> {"SELECT users", "INSERT messages"},
                result |-> Cardinality(inflight.subs),
                before |-> messages,
                asked |-> inflight.asked]
  /\ inflight' = NoNewsletter
  /\ UNCHANGED <<db, faults, migVars, srvVars, bootVars, rxVars, users, session, hits>>

\* POST /admin/users/:id/message
AdminMessage(u, subject, body) ==
  /\ Hit
  /\ LET route == "POST /admin/users/:id/message"
         asks == Gate(route) = "next" /\ subject /\ body
     IN  \E f \in StoreFaults(asks) :
           /\ CountFault(f)
           /\ IF Gate(route) # "next"
              THEN Refused(route) /\ UNCHANGED messages
              ELSE IF ~subject \/ ~body
              THEN /\ Served(route, "render error: required", TRUE,
                             {"SELECT users"}, 0)
                   /\ UNCHANGED messages
              ELSE IF f
              THEN /\ Served(route, "render error: not sent", TRUE,
                             {"INSERT messages", "SELECT users"}, 0)
                   /\ UNCHANGED messages
              ELSE /\ Served(route, "redirect /admin", TRUE,
                             {"INSERT messages"}, 0)
                   /\ messages' = Append(messages, Message(u, session.id, "direct"))
  /\ UNCHANGED <<users, session, inflight>>

NextWeb ==
  \/ \E u \in UserIds, match \in BOOLEAN : Login(u, match)
  \/ Logout
  \/ \E route \in AuthRoutes \cup AdminRoutes : Visit(route)
  \/ \E u \in UserIds : Approve(u)
  \/ \E id \in 1..(Len(messages) + 1) : MarkRead(id)
  \/ UnreadCount
  \/ \E subject, body \in BOOLEAN : NewsletterSend(subject, body)
  \/ NewsletterInsert
  \/ \E u \in UserIds, subject, body \in BOOLEAN : AdminMessage(u, subject, body)

SpecWeb == InitWeb /\ [][NextWeb]_vars

\* ------------------------- Part V: server processes seeding one database
\* Two server processes on one database file; a process is started again
\* once the callbacks of its previous start have run.
Servers == {"s1", "s2"}

Pending(p, op, seed) == [proc |-> p, op |-> op, seed |-> seed]

\* Earlier starts have seeded a strain, and inserted the admin, or not.
InitBoot ==
  /\ db = <<>>
  /\ faults = 0
  /\ IdleScripts
  /\ focus = "none"
  /\ serial = <<>>
  /\ pool = {}
  /\ reqs = 0
  /\ logged = {}
  /\ table0 = Absent
  /\ early = {}
  /\ late = FALSE
  /\ IdleWeb
  /\ bootPool = {}
  /\ titles \in [Seeds -> {0, 1}]
  /\ admins \in {0, 1}
  /\ promise = [p \in Servers |-> "none"]
  /\ boots = 0
  /\ IdleRx

\* What a start of server.js hands to the database for the seeds and the
\* admin: ensureAdmin() at line 369, ensureAdditionalProducts() at line 378.
Boot(p) ==
  /\ boots < MaxBoots
  /\ boots' = boots + 1
  /\ \A s \in bootPool : s.proc # p
  /\ bootPool' = bootPool
                 \cup {Pending(p, "SELECT admin", 0)}
                 \cup {Pending(p, "SELECT seed", i) : i \in Seeds}
  /\ promise' = [promise EXCEPT ![p] = "pending"]
  /\ UNCHANGED <<storeVars, migVars, srvVars, webVars, rxVars, titles, admins>>

\* if (!row) after SELECT id FROM products WHERE title = ?
SeedWanted(count) == count = 0

\* The callback of ensureAdditionalProducts' SELECT for one strain.
BootSeedSelect(p) ==
  /\ \E s \in bootPool :
       /\ s.proc = p /\ s.op = "SELECT seed"
       /\ bootPool' = (bootPool \ {s})
                      \cup (IF SeedWanted(titles[s.seed])
                            THEN {Pending(p, "INSERT seed", s.seed)} ELSE {})
  /\ UNCHANGED <<storeVars, migVars, srvVars, webVars, rxVars, titles, admins, promise, boots>>

\* INSERT INTO products (title, ...): products.title carries no UNIQUE
\* constraint, the row is added whatever the table holds.
BootSeedInsert(p) ==
  /\ \E s \in bootPool :
       /\ s.proc = p /\ s.op = "INSERT seed"
       /\ bootPool' = bootPool \ {s}
       /\ titles' = [titles EXCEPT ![s.seed] = @ + 1]
  /\ UNCHANGED <<storeVars, migVars, srvVars, webVars, rxVars, admins, promise, boots>>

\* ensureAdmin: the callback of SELECT id FROM users WHERE email = 'Admin'.
BootAdminSelect(p) ==
  /\ \E s \in bootPool :
       /\ s.proc = p /\ s.op = "SELECT admin"
       /\ bootPool' = (bootPool \ {s})
                      \cup (IF admins = 0 THEN {Pending(p, "INSERT admin", 0)}
                            ELSE {})
       /\ promise' = [promise EXCEPT ![p] = IF admins = 0 THEN @ ELSE "resolved"]
  /\ UNCHANGED <<storeVars, migVars, srvVars, webVars, rxVars, titles, admins, boots>>

\* ensureAdmin: INSERT INTO users (email, ...) VALUES ('Admin', ...) and its
\* callback; users.email is UNIQUE, a second row is refused.
BootAdminInsert(p) ==
  /\ \E s \in bootPool :
       /\ s.proc = p /\ s.op = "INSERT admin"
       /\ bootPool' = bootPool \ {s}
       /\ admins' = IF admins = 0 THEN 1 ELSE admins
       /\ promise' = [promise EXCEPT ![p] =
                        IF admins = 0 THEN "resolved" ELSE "rejected"]
  /\ UNCHANGED <<storeVars, migVars, srvVars, webVars, rxVars, titles, boots>>

BootStep(p) ==
  \/ Boot(p)
  \/ BootSeedSelect(p)
  \/ BootSeedInsert(p)
  \/ BootAdminSelect(p)
  \/ BootAdminInsert(p)

\* One server process, started again and again.
NextBootAlone == BootStep("s1")

SpecBootAlone == InitBoot /\ [][NextBootAlone]_vars

NextBoot == \E p \in Servers : BootStep(p)

SpecBoot == InitBoot /\ [][NextBoot]_vars

\* ------------------------------------ Part VI: the date of a prescription
\* A Date is followed as its local day, counted in days since 1970-01-01.
\* Thursday 2022-12-29, before a turn of the year that falls on a weekend,
\* and Saturday 2024-02-24, before a leap day.
Anchors == {19355, 19777}

Days == {a + k : a \in Anchors, k \in 0..MaxDays}

\* Date.prototype.getDay: Sunday = 0, Monday = 1, ... Saturday = 6;
\* 1970-01-01 was a Thursday.
getDay(n) == (n + 4) % 7

\* Year, month and day of the month of a day (the proleptic Gregorian
\* calendar of Date.prototype.getFullYear, getMonth() + 1 and getDate).
Civil(n) ==
  LET z == n + 719468
      era == z \div 146097
      doe == z - era * 146097
      yoe == (doe - doe \div 1460 + doe \div 36524 - doe \div 146096) \div 365
      doy == doe - (365 * yoe + yoe \div 4 - yoe \div 100)
      mp == (5 * doy + 2) \div 153
      m == IF mp < 10 THEN mp + 3 ELSE mp - 9
  IN  [year |-> yoe + era * 400 + (IF m <= 2 THEN 1 ELSE 0),
       month |-> m,
       date |-> doy - (153 * mp + 2) \div 5 + 1]

getDate(n) == Civil(n).date

\* Date.prototype.setDate(k): day k of the month the date is in, day 0
\* being the last day of the month before, day -1 the day before that.
setDate(n, k) == n - getDate(n) + k

\* A faulty variant: Sunday goes back one day only.
getLastWorkdayDate_OneBack(today) ==
  IF getDay(today) = 6 \/ getDay(today) = 0
  THEN setDate(today, getDate(today) - 1)
  ELSE today

\* function getLastWorkdayDate(), today being what new Date() gives.
getLastWorkdayDate(today) ==
  IF getDay(today) = 6 THEN setDate(today, getDate(today) - 1)
  ELSE IF getDay(today) = 0 THEN setDate(today, getDate(today) - 2)
  ELSE today

\* String(k).padStart(2, '0'), as its two digits.
PadStart2(k) == IF k < 10 THEN <<0, k>> ELSE <<k \div 10, k % 10>>

\* function formatDateISO(date): `${year}-${month}-${dayOfMonth}`, as its
\* three parts.
formatDateISO(n) ==
  [year |-> Civil(n).year,
   month |-> PadStart2(Civil(n).month),
   dayOfMonth |-> PadStart2(Civil(n).date)]

\* function formatISOToDisplay(isoString): `${day}.${month}.${yy}`
formatISOToDisplay(iso) ==
  [day |-> iso.dayOfMonth, month |-> iso.month,
   year |-> <<(iso.year % 100) \div 10, iso.year % 10>>]

\* The sessions a prescription request may come with: none, a user waiting
\* for approval, an approved user, the admin.
IntakeSessions ==
  {NoSession,
   [set |-> TRUE, id |-> 2, is_admin |-> FALSE, approved |-> FALSE],
   [set |-> TRUE, id |-> 3, is_admin |-> FALSE, approved |-> TRUE],
   [set |-> TRUE, id |-> 1, is_admin |-> TRUE, approved |-> TRUE]}

InitIntake ==
  /\ db = <<>>
  /\ faults = 0
  /\ IdleScripts
  /\ focus = "none"
  /\ serial = <<>>
  /\ pool = {}
  /\ reqs = 0
  /\ logged = {}
  /\ table0 = Absent
  /\ early = {}
  /\ late = FALSE
  /\ users = <<>>
  /\ messages = <<>>
  /\ session \in IntakeSessions
  /\ latest = NoRequest
  /\ hits = 0
  /\ inflight = NoNewsletter
  /\ IdleBoot
  /\ clock \in Days
  /\ prescriptions = <<>>
  /\ posted = NoPost

\* Midnight passes.
Tick ==
  /\ clock + 1 \in Days
  /\ clock' = clock + 1
  /\ UNCHANGED <<storeVars, migVars, srvVars, webVars, bootVars, prescriptions,
                 posted>>

IntakeHit ==
  /\ hits < MaxHits
  /\ hits' = hits + 1
  /\ UNCHANGED <<db, migVars, srvVars, bootVars, users, messages, session,
                 inflight, clock>>

\* GET /prescriptions/new: behind requireAuth the handler looks at the
\* approval once more, then shows the form with the date the prescription
\* will carry.
PrescriptionForm ==
  /\ IntakeHit
  /\ IF requireAuth(session) # "next"
     THEN Refused("GET /prescriptions/new")
     ELSE IF ~session.approved /\ ~session.is_admin
     THEN Served("GET /prescriptions/new", "render awaiting", TRUE, {}, clock)
     ELSE Served("GET /prescriptions/new", "render prescription-form", TRUE, {},
                 formatISOToDisplay(formatDateISO(getLastWorkdayDate(clock))))
  /\ UNCHANGED <<faults, prescriptions, posted>>

\* A value of req.body: a field the form did not send, a string as its
\* characters, or the array express.urlencoded makes of a field sent twice.
Undefined == [kind |-> "undefined", chars |-> <<>>]

Str(chars) == [kind |-> "string", chars |-> chars]

Twice == [kind |-> "array", chars |-> <<>>]

\* !value
Falsy(v) == v.kind = "undefined" \/ (v.kind = "string" /\ v.chars = <<>>)

\* String.prototype.trim
Trim(s) ==
  LET RECURSIVE TrimStart(_)
      TrimStart(t) ==
        IF t # <<>> /\ Head(t) = " " THEN TrimStart(Tail(t)) ELSE t
      RECURSIVE TrimEnd(_)
      TrimEnd(t) ==
        IF t # <<>> /\ t[Len(t)] = " "
        THEN TrimEnd(SubSeq(t, 1, Len(t) - 1)) ELSE t
  IN  TrimEnd(TrimStart(s))

\* String.prototype.replace(a, b) with a string pattern: the first
\* occurrence only.
RECURSIVE Replace(_, _, _)
Replace(s, a, b) ==
  IF s = <<>> THEN <<>>
  ELSE IF Head(s) = a THEN <<b>> \o Tail(s)
  ELSE <<Head(s)>> \o Replace(Tail(s), a, b)

\* A number is followed in hundredths; NaN and the infinities have none.
NaN == [nan |-> TRUE, finite |-> FALSE, hundredths |-> 0]

Infinite == [nan |-> FALSE, finite |-> FALSE, hundredths |-> 0]

Finite(h) == [nan |-> FALSE, finite |-> TRUE, hundredths |-> h]

\* Number(str) for a trimmed, non-empty string: an optional sign, then
\* Infinity or decimal digits with at most one point and, as far as they are
\* followed, at most two digits after it; anything else is NaN.
Number(str) ==
  LET Digit == {"0", "1", "2", "3", "4", "5", "6", "7", "8", "9"}
      DigitValue(c) ==
        CASE c = "0" -> 0 [] c = "1" -> 1 [] c = "2" -> 2 [] c = "3" -> 3
          [] c = "4" -> 4 [] c = "5" -> 5 [] c = "6" -> 6 [] c = "7" -> 7
          [] c = "8" -> 8 [] c = "9" -> 9
      RECURSIVE Decimal(_)
      Decimal(t) ==
        IF t = <<>> THEN 0
        ELSE 10 * Decimal(SubSeq(t, 1, Len(t) - 1)) + DigitValue(t[Len(t)])
      signed == Head(str) \in {"-", "+"}
      body == IF signed THEN Tail(str) ELSE str
      dots == {i \in DOMAIN body : body[i] = "."}
      dot == IF dots = {} THEN Len(body) + 1 ELSE CHOOSE i \in dots : TRUE
      whole == SubSeq(body, 1, dot - 1)
      frac == SubSeq(body, dot + 1, Len(body))
      padded == SubSeq(frac \o <<"0", "0">>, 1, 2)
      value == 100 * Decimal(whole) + Decimal(padded)
  IN  IF body = <<"I", "n", "f", "i", "n", "i", "t", "y">> THEN Infinite
      ELSE IF /\ Cardinality(dots) <= 1
              /\ Len(whole) + Len(frac) > 0
              /\ \A i \in DOMAIN whole : whole[i] \in Digit
              /\ \A i \in DOMAIN frac : frac[i] \in Digit
      THEN Finite(IF Head(str) = "-" THEN -value ELSE value)
      ELSE NaN

\* function normalizeGrams(raw)
normalizeGrams(raw) ==
  IF raw.kind = "undefined" THEN NaN
  ELSE LET str == Trim(Replace(raw.chars, ",", "."))
       IN  IF str = <<>> THEN NaN
           ELSE IF Number(str).finite THEN Number(str) ELSE NaN

\* The fields checked with `!field || !field.trim()`.
TrimmedFields ==
  {"first_name", "last_name", "street", "house_number", "zip_code", "city",
   "medication_strain"}

\* The fields checked with `!field`.
TruthyFields == {"patient_birth", "indication"}

Fields == TrimmedFields \cup TruthyFields \cup {"cost_confirm", "medication_grams"}

\* A form filled in as the page asks.
ValidForm ==
  [f \in Fields |->
     CASE f = "cost_confirm" -> Str(<<"j", "a">>)
       [] f = "medication_grams" -> Str(<<"5">>)
       [] OTHER -> Str(<<"x">>)]

\* A form sent with nothing in it.
EmptyForm == [f \in Fields |-> Undefined]

\* What a field may carry instead.
Instead(f) ==
  CASE f = "cost_confirm" -> {Undefined, Str(<<"n", "e", "i", "n">>)}
    [] f = "medication_grams" ->
         {Undefined, Str(<<>>), Str(<<" ">>), Str(<<"a">>), Str(<<"0">>),
          Str(<<"-", "1">>), Str(<<"0", ",", "0", "0">>),
          Str(<<"2", ",", "5">>), Str(<<" ", "5", " ">>),
          Str(<<"1", ",", "2", ",", "3">>),
          Str(<<"I", "n", "f", "i", "n", "i", "t", "y">>)}
    [] f \in TruthyFields -> {Undefined, Str(<<>>), Str(<<" ">>)}
    [] OTHER -> {Undefined, Str(<<>>), Str(<<" ">>), Twice}

\* The forms posted: the valid one, the valid one with one field carrying
\* something else, the empty one.
Bodies ==
  {ValidForm, EmptyForm}
    \cup UNION {{[ValidForm EXCEPT ![f] = v] : v \in Instead(f)} : f \in Fields}

\* field.trim() on an array: TypeError, field.trim is not a function.
Throws(body) ==
  \E f \in TrimmedFields : ~Falsy(body[f]) /\ body[f].kind # "string"

\* The fields the checks of the handler push an error for.
Errors(body) ==
  {f \in TrimmedFields :
     Falsy(body[f]) \/ (body[f].kind = "string" /\ Trim(body[f].chars) = <<>>)}
    \cup {f \in TruthyFields : Falsy(body[f])}
    \cup {f \in {"cost_confirm"} : body[f] # Str(<<"j", "a">>)}
    \cup {f \in {"medication_grams"} :
            \/ ~normalizeGrams(body[f]).finite
            \/ normalizeGrams(body[f]).hundredths <= 0}

\* The values of the INSERT that the prescription is told by.
PrescriptionRow(body, userId, date) ==
  [user_id |-> userId,
   insurance |-> "Privat",
   patient_birth |-> body["patient_birth"],
   date |-> date,
   indication |-> body["indication"],
   medication_grams |-> normalizeGrams(body["medication_grams"]),
   medication_strain |-> Trim(body["medication_strain"].chars),
   cost_confirmed |-> IF body["cost_confirm"] = Str(<<"j", "a">>) THEN 1 ELSE 0]

\* POST /prescriptions/new: a form with errors is shown again with status
\* 400; otherwise the row is written with the session user and the date. An
\* exception thrown by a check ends in the 500 of express.
PostPrescription(body) ==
  /\ IntakeHit
  /\ posted' = [set |-> TRUE, body |-> body, before |-> prescriptions]
  /\ LET route == "POST /prescriptions/new"
         date == formatDateISO(getLastWorkdayDate(clock))
         sends == /\ requireAuth(session) = "next"
                  /\ ~Throws(body)
                  /\ Errors(body) = {}
     IN  \E f \in StoreFaults(sends) :
           /\ CountFault(f)
           /\ IF requireAuth(session) # "next"
              THEN Refused(route) /\ UNCHANGED prescriptions
              ELSE IF Throws(body)
              THEN /\ Served(route, "500", TRUE, {}, clock)
                   /\ UNCHANGED prescriptions
              ELSE IF Errors(body) # {}
              THEN /\ Served(route, "400 render prescription-form", TRUE, {}, clock)
                   /\ UNCHANGED prescriptions
              ELSE IF f
              THEN /\ Served(route, "500 render prescription-form", TRUE,
                             {"INSERT prescriptions"}, clock)
                   /\ UNCHANGED prescriptions
              ELSE /\ Served(route, "redirect /prescriptions/success", TRUE,
                             {"INSERT prescriptions"}, clock)
                   /\ prescriptions' =
                        Append(prescriptions,
                               PrescriptionRow(body, session.id, date))

NextIntake ==
  \/ Tick
  \/ PrescriptionForm
  \/ \E body \in {ValidForm, EmptyForm} : PostPrescription(body)

SpecIntake == InitIntake /\ [][NextIntake]_vars

\* The forms of one day, told apart field by field.
InitForms ==
  /\ InitIntake
  /\ clock \in Anchors

ShowForm == hits < MaxPosts /\ PrescriptionForm

PostForm == hits < MaxPosts /\ \E body \in Bodies : PostPrescription(body)

NextForms == ShowForm \/ PostForm

SpecForms == InitForms /\ [][NextForms]_vars

\* -------------------------------------------------------------- properties
Products == db["products"]

IsPrefix(a, b) == Len(a) <= Len(b) /\ \A i \in DOMAIN a : a[i] = b[i]

Occurrences(cols, n) == Cardinality({i \in DOMAIN cols : cols[i].name = n})

HasEveryExpected(t) ==
  t.exists /\ \A n \in NamesOf(EXPECTED_COLUMNS) : n \in NamesOf(t.cols)

IssuedOps(p) == {issued[p][i].op : i \in DOMAIN issued[p]}

\* C1: an invocation that starts after an earlier one has returned, against
\* the table that one left, returns created = false and an empty added list,
\* and leaves the column set the earlier invocation left.
C1_Idempotent ==
  \A p \in Procs :
    (pc[p] = "done" /\ prevOk[p].set) =>
      /\ created[p] = FALSE
      /\ added[p] = <<>>
      /\ NamesOf(Products.cols) = NamesOf(prevOk[p].cols)

\* The first invocation created the table, the second has returned.
C1_Witness ==
  \E p \in Procs :
    /\ pc[p] = "done"
    /\ prevOk[p].set
    /\ prevOk[p].cols = <<PrimaryKey>> \o EXPECTED_COLUMNS

\* C2: an invocation that found no table and has returned reports
\* created = true and an empty added list, has sent no ADD COLUMN, and the
\* table is the auto-incrementing key followed by the expected columns in
\* their declared order.
C2_Creation ==
  \A p \in Procs :
    (pc[p] = "done" /\ ~before[p].exists) =>
      /\ created[p] = TRUE
      /\ added[p] = <<>>
      /\ "ADD COLUMN" \notin IssuedOps(p)
      /\ "CREATE TABLE" \in IssuedOps(p)
      /\ Products.exists
      /\ Products.cols = <<Col("id", "INTEGER PRIMARY KEY AUTOINCREMENT")>>
                            \o EXPECTED_COLUMNS

C2_Witness == \E p \in Procs : pc[p] = "done" /\ ~before[p].exists /\ created[p]

\* C3: an invocation that found the table and has returned reports
\* created = false and, as added, the expected columns whose names the
\* introspection did not show, in the order of the target schema; the
\* table's column set is then its previous one joined with the target's.
C3_PartialCatchUp ==
  \A p \in Procs :
    (pc[p] = "done" /\ before[p].exists) =>
      /\ created[p] = FALSE
      /\ have[p] = NamesOf(before[p].cols)
      /\ added[p] = MapNames(SelectSeq(EXPECTED_COLUMNS,
                                       LAMBDA c : c.name \notin have[p]))
      /\ NamesOf(Products.cols) =
           NamesOf(before[p].cols) \cup NamesOf(EXPECTED_COLUMNS)

C3_Witness ==
  \E p \in Procs :
    pc[p] = "done" /\ before[p].exists /\ Len(added[p]) = MaxMissing

\* The columns of table a are still the first columns of table b, each with
\* its declaration, and the rows of a are still the first rows of b, with the
\* same values in those columns.
Kept(a, b) ==
  a.exists =>
    /\ b.exists
    /\ IsPrefix(a.cols, b.cols)
    /\ Len(a.rows) <= Len(b.rows)
    /\ \A i \in DOMAIN a.rows :
         \A n \in NamesOf(a.cols) : b.rows[i][n] = a.rows[i][n]

\* C4: whatever a run of ensureTable or of one of the server's extend
\* functions has done so far, the columns the table had before it are still
\* its first columns, each with its declaration, the rows it had are the same
\* rows with the same values in those columns, and no statement that changes
\* the schema has been sent other than CREATE TABLE and ADD COLUMN.
C4_NoDestructiveAction ==
  /\ focus = "none" =>
       \A p \in Procs :
         /\ IssuedOps(p) \subseteq
              {"PRAGMA wal", "PRAGMA fk", "SELECT sqlite_master",
               "PRAGMA table_info", "CREATE TABLE", "ADD COLUMN"}
         /\ Kept(before[p], Products)
         /\ before[p].exists => Len(Products.rows) = Len(before[p].rows)
  /\ focus # "none" =>
       /\ Kept(table0, db[focus])
       /\ \A s \in pool \cup Range(serial) :
            s.op \in {"CREATE", "PRAGMA", "ALTER", "SELECT seed", "INSERT seed"}

\* Columns were added to a table that holds a row and a column the target
\* schema does not name.
C4_Witness ==
  \E p \in Procs :
    /\ pc[p] = "done"
    /\ added[p] # <<>>
    /\ before[p].rows # <<>>
    /\ LegacyColumn.name \in NamesOf(before[p].cols)

\* C5: of two invocations running against the same store, neither raises for
\* a reason of the race (an invocation fails only on a failure of the store),
\* and once both have returned every expected column is there exactly once.
C5_RaceTolerance ==
  /\ \A p \in Procs : pc[p] = "failed" => err[p] = "SQLITE_IOERR"
  /\ (\A p \in Procs : pc[p] = "done") =>
       \A n \in NamesOf(EXPECTED_COLUMNS) : Occurrences(Products.cols, n) = 1

\* C6: no invocation ever raises the store's "duplicate column name".
C6_DuplicateColumnBenign ==
  \A p \in Procs : err[p] # "duplicate column name"

\* C7 for the migration script: an invocation that failed carries the error,
\* the script exits with status 1, and what it had added is in the table.
C7_ScriptAborts ==
  \A p \in Procs :
    pc[p] = "failed" =>
      /\ err[p] # "none"
      /\ exitCode[p] = 1
      /\ \A i \in DOMAIN added[p] : added[p][i] \in NamesOf(Products.cols)

\* C7: a reconciliation stops at the step that failed with an error other
\* than "duplicate column name": the script's invocation ends with the error
\* and status 1, keeping what it had added, and in the server no ADD COLUMN
\* of a reconciliation is executed once one of its ADD COLUMNs has failed so.
C7_FatalErrorPropagation ==
  /\ focus = "none" => C7_ScriptAborts
  /\ ~late

\* C8 as stated: after an invocation was interrupted inside the loop, any
\* later invocation that returns leaves every expected column in the table
\* and reports as added exactly what the interrupted one had left.
C8_AnyLaterInvocation ==
  \A p \in Procs :
    (pc[p] = "done" /\ prevBreak[p].set) =>
      /\ HasEveryExpected(Products)
      /\ added[p] = prevBreak[p].rest

\* C8 amended: any later invocation that returns leaves every expected column
\* in the table; the next one to touch the table, with no other invocation
\* changing the table during either of the two, reports as added exactly
\* what the interrupted one had left.
C8_RerunConverges ==
  \A p \in Procs :
    (pc[p] = "done" /\ prevBreak[p].set) =>
      /\ HasEveryExpected(Products)
      /\ (~prevBreak[p].stale /\ prevBreak[p].clean /\ ~disturbed[p]) =>
           added[p] = prevBreak[p].rest

C8_Witness ==
  \E p \in Procs :
    /\ pc[p] = "done"
    /\ prevBreak[p].set /\ ~prevBreak[p].stale /\ prevBreak[p].clean
    /\ ~disturbed[p]
    /\ added[p] # <<>>

\* C9: no INSERT of a request is executed on a table that is not there or
\* is short of one of its desired columns.
C9_ReconcileBeforeTraffic == "request" \notin early

\* C10: no seeding INSERT of ensureAdditionalProducts is executed on a
\* products table that is short of thc, cbd, effects, aroma or terpenes.
C10_SchemaBeforeSeed == "seed" \notin early

\* C11 for the migration script: the statements of an invocation are the two
\* connection PRAGMAs, the existence query, then either CREATE TABLE alone or
\* the introspection followed by ADD COLUMN statements only.
C11_ScriptInOrder ==
  \A p \in Procs :
    \A i \in DOMAIN issued[p] :
      /\ i = 1 => issued[p][i].op = "PRAGMA wal"
      /\ i = 2 => issued[p][i].op = "PRAGMA fk"
      /\ i = 3 => issued[p][i].op = "SELECT sqlite_master"
      /\ i = 4 => issued[p][i].op \in {"CREATE TABLE", "PRAGMA table_info"}
      /\ i > 4 => issued[p][4].op = "PRAGMA table_info"
                  /\ issued[p][i].op = "ADD COLUMN"

\* C11: the steps of a reconciliation come one after the other, existence
\* query, introspection, ADD COLUMNs, and of the introspection and the ADD
\* COLUMNs of one reconciliation at most one is handed to the database and
\* not yet completed.
C11_SinglePassOrdering ==
  /\ focus = "none" => C11_ScriptInOrder
  /\ Cardinality({s \in pool : s.op \in {"PRAGMA", "ALTER"}}) <= 1

\* What the target schema declares for a column: its type and its default,
\* NULL without one.
Declared(ddl) == [type |-> InfoType(ddl), dflt_value |-> InfoDefault(ddl)]

Reported(t, n) ==
  [type |-> InfoRow(t, n).type, dflt_value |-> InfoRow(t, n).dflt_value]

\* The columns the server's startup has put into the followed table, each
\* with the statement's declaration: CREATE TABLE's when the table was not
\* there and names the column, the extend function's otherwise.
StartupTarget(n) ==
  IF ~table0.exists /\ n \in NamesOf(CreateSchema(focus))
  THEN Declared((CHOOSE c \in Range(CreateSchema(focus)) : c.name = n).ddl)
  ELSE IF focus = "prescriptions"
  THEN LET d == CHOOSE d \in Range(desired) : d.name = n
       IN  [type |-> d.type,
            dflt_value |-> IF d.defaultExpr = "null" THEN "NULL" ELSE d.defaultExpr]
  ELSE Declared((CHOOSE c \in Range(Desired(focus)) : c.name = n).ddl)

\* C12: every column an invocation of ensureTable has added, or created with
\* the table, and every column the server's startup has created or added,
\* is reported by PRAGMA table_info with the type and the default the target
\* schema declares for it.
C12_DeclarationFidelity ==
  /\ focus = "none" =>
       \A p \in Procs :
         pc[p] = "done" =>
           \A c \in Range(EXPECTED_COLUMNS) :
             (created[p] \/ c.name \in Range(added[p])) =>
               Reported(Products, c.name) = Declared(c.ddl)
  /\ focus # "none" =>
       \A n \in NamesOf(db[focus].cols) \ NamesOf(table0.cols) :
         n # "id" => Reported(db[focus], n) = StartupTarget(n)

\* extendPrescriptionSchema has added street, declared with a default, to a
\* prescriptions table that was there without it.
C12_Witness ==
  /\ focus = "prescriptions"
  /\ table0.exists
  /\ "street" \notin NamesOf(table0.cols)
  /\ "street" \in NamesOf(db[focus].cols)
  /\ InfoRow(db[focus], "street").dflt_value = "''"

\* The routes registered with requireAuth and those registered with
\* requireAdmin.
BehindRequireAuth ==
  AuthRoutes \cup {"POST /admin/approve/:id", "POST /messages/:id/read",
                   "GET /api/unread-count"}

BehindRequireAdmin ==
  AdminRoutes \cup {"POST /admin/newsletter/send", "POST /admin/users/:id/message"}

\* The latest request was answered by its middleware: no handler, no
\* statement, no change.
TurnedAway(response) ==
  /\ latest.response = response
  /\ ~latest.handler
  /\ latest.stmts = {}
  /\ messages = latest.before

\* C13: the handler of a route behind requireAuth runs only for a session
\* user that is approved or an admin; without a session user the request is
\* redirected to /login, and with one that is neither approved nor admin it
\* gets the awaiting page, in both cases without handler and without a
\* statement.
C13_RequireAuthGate ==
  latest.route \in BehindRequireAuth =>
    /\ latest.handler =>
         latest.session.set /\ (latest.session.approved \/ latest.session.is_admin)
    /\ ~latest.session.set => TurnedAway("redirect /login")
    /\ (latest.session.set /\ ~latest.session.approved /\ ~latest.session.is_admin)
         => TurnedAway("render awaiting")

\* A user who is not approved has logged in and asked for the inbox.
C13_Witness ==
  /\ latest.route = "GET /inbox"
  /\ latest.session.set /\ ~latest.session.approved
  /\ latest.response = "render awaiting"

\* C14: the handler of an admin route runs only for a session user with
\* is_admin; a session user without it whom requireAuth lets through (an
\* authenticated user) is redirected to /showroom, one whom requireAuth
\* stops gets its awaiting page, and in neither case does the request run
\* the handler or send a statement.
C14_RequireAdminGate ==
  latest.route \in BehindRequireAdmin =>
    /\ latest.handler => latest.session.set /\ latest.session.is_admin
    /\ (latest.session.set /\ ~latest.session.is_admin) =>
         IF latest.session.approved
         THEN TurnedAway("redirect /showroom")
         ELSE TurnedAway("render awaiting")

\* An approved user without is_admin has asked for the deletion of a product.
C14_Witness ==
  /\ latest.route = "POST /admin/products/:id/delete"
  /\ latest.session.set /\ latest.session.approved /\ ~latest.session.is_admin
  /\ latest.response = "redirect /showroom"

\* C15: POST /messages/:id/read leaves every row of messages as it was but
\* for the row :id, and changes that row, in read_at alone, only when its
\* recipient_id is the session user's id.
C15_OnlyRecipientMarksRead ==
  (latest.route = "POST /messages/:id/read" /\ latest.handler) =>
    /\ DOMAIN messages = DOMAIN latest.before
    /\ \A i \in DOMAIN messages :
         messages[i] # latest.before[i] =>
           /\ i = latest.result
           /\ latest.before[i].recipient_id = latest.session.id
           /\ messages[i] = [latest.before[i] EXCEPT !.read_at = "CURRENT_TIMESTAMP"]

\* A recipient has marked one of two messages, the other being someone
\* else's.
C15_Witness ==
  /\ latest.route = "POST /messages/:id/read"
  /\ latest.result \in DOMAIN messages
  /\ latest.before[latest.result].read_at = "NULL"
  /\ messages[latest.result].read_at = "CURRENT_TIMESTAMP"
  /\ \E i \in DOMAIN messages : messages[i].recipient_id # latest.session.id

\* The rows the latest request has appended to messages.
Inserted == SubSeq(messages, Len(latest.before) + 1, Len(messages))

C20_UnreadCount ==
  (latest.route = "GET /api/unread-count" /\ latest.handler) =>
    /\ latest.response = "json" =>
         latest.result =
           Cardinality({i \in DOMAIN latest.before :
                          latest.before[i].recipient_id = latest.session.id})
           - Cardinality({i \in DOMAIN latest.before :
                            /\ latest.before[i].recipient_id = latest.session.id
                            /\ latest.before[i].read_at # "NULL"})
    /\ latest.response = "json after error" => latest.result = 0
    /\ latest.response \in {"json", "json after error"}

\* The count is 1 while messages also holds a row for another recipient.
C20_Witness ==
  /\ latest.route = "GET /api/unread-count"
  /\ latest.response = "json"
  /\ latest.result = 1
  /\ \E i \in DOMAIN latest.before :
       latest.before[i].recipient_id # latest.session.id

\* C17: however the server processes were started, products holds at most
\* one row for each title ensureAdditionalProducts seeds.
C17_SeedWithoutDuplicates == \A i \in DOMAIN titles : titles[i] <= 1

\* C18: however the server processes were started, users holds at most one
\* row with email 'Admin', exactly one once a process's ensureAdmin has
\* settled, and no promise of ensureAdmin is rejected.
C18_AdminBootstrap ==
  /\ admins <= 1
  /\ \A p \in DOMAIN promise :
       /\ promise[p] # "rejected"
       /\ promise[p] = "resolved" => admins = 1

\* The day an ISO date names: the day whose year, month and day of the
\* month are the ones written.
DayOfISO(iso) ==
  CHOOSE n \in (clock - 31)..(clock + 31) :
    /\ Civil(n).year = iso.year
    /\ Civil(n).month = 10 * iso.month[1] + iso.month[2]
    /\ Civil(n).date = 10 * iso.dayOfMonth[1] + iso.dayOfMonth[2]

\* C19: the date of the row POST /prescriptions/new has just written is
\* today's when today is Monday to Friday, the day before when today is
\* Saturday, two days before when today is Sunday; it is never a Saturday
\* or Sunday and never later than today.
C19_LastWorkdayDate ==
  (latest.route = "POST /prescriptions/new"
     /\ latest.response = "redirect /prescriptions/success") =>
    LET today == latest.result
        stored == DayOfISO(prescriptions[Len(prescriptions)].date)
    IN  /\ getDay(today) \in 1..5 => stored = today
        /\ getDay(today) = 6 => stored = today - 1
        /\ getDay(today) = 0 => stored = today - 2
        /\ getDay(stored) \notin {0, 6}
        /\ stored <= today

\* A prescription handed in on Sunday 2023-01-01 carries 2022-12-30.
C19_Witness ==
  /\ latest.route = "POST /prescriptions/new"
  /\ latest.response = "redirect /prescriptions/success"
  /\ getDay(latest.result) = 0
  /\ prescriptions[Len(prescriptions)].date =
       [year |-> 2022, month |-> <<1, 2>>, dayOfMonth |-> <<3, 0>>]

\* The invocations of p that ended by returning or throwing.
Exited(p) == pc[p] \in {"done", "failed"}

\* C21: called with a path or with nothing, ensureProductsSchema works on a
\* connection it opened itself and has closed it when it returns or throws;
\* called with a database handle, it leaves that handle open, whether it
\* returns or throws.
C21_ConnectionOwnership ==
  \A p \in Procs :
    /\ pc[p] \in Active \cup {"done", "failed"} =>
         opened[p] = (dbOrPath[p] \in {"path", "nothing"})
    /\ pc[p] \in Active => connOpen[p]
    /\ Exited(p) /\ dbOrPath[p] \in {"path", "nothing"} => ~connOpen[p]
    /\ Exited(p) /\ dbOrPath[p] = "handle" => connOpen[p]

\* A call with the caller's handle fails inside the ADD COLUMN loop and the
\* handle is still open.
C21_Witness ==
  /\ dbOrPath["m1"] = "handle"
  /\ pc["m1"] = "failed"
  /\ err["m1"] # "none"
  /\ added["m1"] # <<>>
  /\ connOpen["m1"]

\* A field that has something other than white space in it.
NonBlank(v) == v.kind = "array" \/ (v.kind = "string" /\ Trim(v.chars) # <<>>)

\* What the intake asks of a form: every required field and the strain
\* non-blank, cost_confirm 'ja', the normalized amount finite and positive.
Acceptable(body) ==
  /\ \A f \in TrimmedFields \cup TruthyFields : NonBlank(body[f])
  /\ body["cost_confirm"] = Str(<<"j", "a">>)
  /\ normalizeGrams(body["medication_grams"]).finite
  /\ normalizeGrams(body["medication_grams"]).hundredths > 0

\* C22: the handler of POST /prescriptions/new writes a row only for a form
\* whose required fields and strain are non-blank, whose cost_confirm is
\* 'ja' and whose normalized amount is finite and positive; for any other
\* form it answers 400 and leaves the table as it was; every row written has
\* a positive amount, insurance 'Privat' and cost_confirmed 1.
C22_IntakeValidation ==
  (posted.set /\ latest.route = "POST /prescriptions/new" /\ latest.handler) =>
    /\ prescriptions # posted.before => Acceptable(posted.body)
    /\ ~Acceptable(posted.body) =>
         /\ latest.response = "400 render prescription-form"
         /\ prescriptions = posted.before
    /\ \A i \in DOMAIN prescriptions :
         /\ prescriptions[i].medication_grams.finite
         /\ prescriptions[i].medication_grams.hundredths > 0
         /\ prescriptions[i].insurance = "Privat"
         /\ prescriptions[i].cost_confirmed = 1

====
